---------------------------- MODULE Spec2Model ----------------------------
(***************************************************************************)
(* A model of msms/wrapper.py: the MsmsOutput log queries (params,         *)
(* extract_ses_sas_vol, get_ses_per_sphere, get_sas_per_sphere), run_msms  *)
(* and the small-atom filter _run_msms_check_small_atoms.                  *)
(*                                                                         *)
(* Text.  A str is a sequence of chunks.  A chunk is a piece of text that  *)
(* holds no whitespace, or one whitespace character (" " or "\n").  The    *)
(* markers the code looks for are cut at their spaces and no other chunk   *)
(* begins like a chunk of a marker, so str.startswith is prefix-of-        *)
(* sequence, str.strip drops the whitespace chunks at both ends and        *)
(* str.split cuts at the runs of whitespace chunks.  A token is the        *)
(* sequence of the chunks between two cuts.                                *)
(*                                                                         *)
(* Numbers.  A float read from text is kept in tenths (the text "1.5" is   *)
(* 15).  Coordinates and radii are integers in units of one half (radius   *)
(* 1.0 is 2, distance 0.5 is 1); arithmetic is exact, floating-point       *)
(* rounding is not modelled.                                               *)
(***************************************************************************)
EXTENDS Integers, Sequences, FiniteSets, TLC

VARIABLES
    log_lines,          \* MsmsOutput.log_lines: a sequence of str
    areas,              \* MsmsOutput.areas: None or the area table
    ret,                \* what the last call of a method of the MsmsOutput did
    xyz,                \* run_msms: argument xyz, after np.asarray
    radii,              \* run_msms: argument radii, after np.asarray
    args,               \* run_msms: *args
    kwargs,             \* run_msms: **kwargs, in order
    compute_area,       \* run_msms: compute_area
    temp_dir,           \* run_msms: temp_dir
    check_small_atoms,  \* run_msms: check_small_atoms
    pc,                 \* where the call of run_msms stands
    passed,             \* the filter's good_atoms and the arrays it handed on
    tmp_made,           \* TemporaryDirectory(dir=temp_dir) was entered
    xyzr_file,          \* what np.savetxt wrote to input.xyzr
    call,               \* the argument list given to subprocess.run
    frame_compute_area, \* compute_area in the frame of run_msms that runs msms
    outcome             \* what run_msms did: raised or returned

vars == <<log_lines, areas, ret, xyz, radii, args, kwargs, compute_area,
          temp_dir, check_small_atoms, pc, passed, tmp_made, xyzr_file,
          call, frame_compute_area, outcome>>

runVars == <<xyz, radii, args, kwargs, compute_area, temp_dir,
             check_small_atoms, pc, passed, tmp_made, xyzr_file, call,
             frame_compute_area, outcome>>

-----------------------------------------------------------------------------
(* Bounds of the model. *)

\* the longest log, in pieces (a piece is one line or one area block)
MaxPieces == 4
\* the longest log given to params(), in lines
MaxParamLines == 3
\* the most atoms given to the small-atom filter
MaxAtoms == 3
\* the most extra positional arguments given to run_msms
MaxArgs == 2

-----------------------------------------------------------------------------
(* Python values and outcomes. *)

None == [kind |-> "None"]
Return(v) == [kind |-> "return", value |-> v]
Raise(exc, msg) == [kind |-> "raise", exc |-> exc, msg |-> msg]
NoCall == [kind |-> "none"]

IsReturn(r) == r.kind = "return"
IsRaise(r) == r.kind = "raise"

RECURSIVE SeqsUpTo(_, _)
SeqsUpTo(S, n) ==
    IF n = 0 THEN {<<>>}
    ELSE LET shorter == SeqsUpTo(S, n - 1)
         IN  shorter \cup {Append(s, x) : s \in {t \in shorter : Len(t) = n - 1}, x \in S}

RECURSIVE Flatten(_)
Flatten(ss) == IF ss = <<>> THEN <<>> ELSE Head(ss) \o Flatten(Tail(ss))

-----------------------------------------------------------------------------
(* str: startswith, strip, split, float. *)

Whitespace == {" ", "\n"}

\* the text of each numeric chunk, as float() reads it, in tenths
FloatText == [c \in {"0", "1.5", "2.0", "3.0", "4.5", "6.0", "7.5", "9.0"} |->
                CASE c = "0" -> 0 [] c = "1.5" -> 15 [] c = "2.0" -> 20
                  [] c = "3.0" -> 30 [] c = "4.5" -> 45 [] c = "6.0" -> 60
                  [] c = "7.5" -> 75 [] c = "9.0" -> 90]

StartsWith(s, prefix) ==
    /\ Len(s) >= Len(prefix)
    /\ SubSeq(s, 1, Len(prefix)) = prefix

RECURSIVE LStrip(_)
LStrip(s) ==
    IF s # <<>> /\ Head(s) \in Whitespace THEN LStrip(Tail(s)) ELSE s

RECURSIVE RStrip(_)
RStrip(s) ==
    IF s # <<>> /\ s[Len(s)] \in Whitespace
    THEN RStrip(SubSeq(s, 1, Len(s) - 1)) ELSE s

Strip(s) == RStrip(LStrip(s))

\* str.split(): toks are the tokens closed so far, cur the token being read
RECURSIVE SplitFrom(_, _, _)
SplitFrom(s, toks, cur) ==
    IF s = <<>> THEN (IF cur = <<>> THEN toks ELSE Append(toks, cur))
    ELSE IF Head(s) \in Whitespace
         THEN SplitFrom(Tail(s), IF cur = <<>> THEN toks ELSE Append(toks, cur), <<>>)
         ELSE SplitFrom(Tail(s), toks, Append(cur, Head(s)))

Split(s) == SplitFrom(s, <<>>, <<>>)

\* float(tok): a token is a number only when it is one numeric chunk
IsFloat(tok) == Len(tok) = 1 /\ tok[1] \in DOMAIN FloatText

\* float(elems[k]), k counted from 0 as in the source
FloatAt(elems, k) ==
    IF Len(elems) < k + 1 THEN Raise("IndexError", "list index out of range")
    ELSE IF ~IsFloat(elems[k + 1])
         THEN Raise("ValueError", "could not convert string to float")
         ELSE Return(FloatText[elems[k + 1][1]])

-----------------------------------------------------------------------------
(* MsmsOutput: the log queries. *)

F(tenths) == [kind |-> "float", tenths |-> tenths]

SurfaceParams(probe_radius, density, hdensity) ==
    [probe_radius |-> probe_radius, density |-> density, hdensity |-> hdensity]

SizeDescriptors(ses, sas, volume) == [ses |-> ses, sas |-> sas, volume |-> volume]

PARAM == <<"PARAM">>
AREA_MARKER == <<"ANALYTICAL", " ", "SURFACE", " ", "AREA", " ", ":">>
VOLUME_MARKER == <<"Total", " ", "ses_volume:">>

\* a slip in the token positions: each one place to the right
ParamFieldsShifted(elems) == <<FloatAt(elems, 3), FloatAt(elems, 5), FloatAt(elems, 7)>>

\* float(elems[2]), float(elems[4]), float(elems[6])
ParamFields(elems) == <<FloatAt(elems, 2), FloatAt(elems, 4), FloatAt(elems, 6)>>

\* params(): the loop of lines 81-85, from line i on
RECURSIVE ParamsScan(_, _)
ParamsScan(lines, i) ==
    IF i > Len(lines) THEN Return(None)
    ELSE IF StartsWith(lines[i], PARAM)
         THEN LET elems == Split(lines[i])
                  p == ParamFields(elems)[1]
                  d == ParamFields(elems)[2]
                  h == ParamFields(elems)[3]
              IN  IF IsRaise(p) THEN p
                  ELSE IF IsRaise(d) THEN d
                  ELSE IF IsRaise(h) THEN h
                  ELSE Return(SurfaceParams(F(p.value), F(d.value), F(h.value)))
         ELSE ParamsScan(lines, i + 1)

params(lines) == ParamsScan(lines, 1)

\* what the two next(lines) after the marker at line i leave as the next line
AfterAreaBlock(i) == i + 3

\* a loop that stops reading volumes at the first one
KeepFirstVolume(old, new) == IF old = None THEN new ELSE old

\* volume = float(entries[2]): a later line overwrites an earlier one
AssignVolume(old, new) == new

\* a loop that returns at the first area block
KeepFirstArea(old, new) == IF old = None THEN new ELSE old

\* ses = float(entries[5]); sas = float(entries[6]): a later block overwrites
AssignArea(old, new) == new

\* extract_ses_sas_vol(): the loop of lines 93-101 from line i on, then the
\* checks of lines 102-106.  area is None or <<ses, sas>>.
RECURSIVE ExtractScan(_, _, _, _)
ExtractScan(lines, i, area, volume) ==
    IF i > Len(lines)
    THEN IF area = None
         THEN Raise("ValueError", "Could not find analytical surface area in the msms output.")
         ELSE IF volume = None
         THEN Raise("ValueError", "Could not find numerical SES volume in the msms output.")
         ELSE Return(SizeDescriptors(area.ses, area.sas, volume))
    ELSE IF StartsWith(lines[i], AREA_MARKER)
    THEN IF AfterAreaBlock(i) - 1 > Len(lines)
         THEN Raise("StopIteration", "")
         ELSE LET entries == Split(lines[AfterAreaBlock(i) - 1])
                  ses == FloatAt(entries, 5)
                  sas == FloatAt(entries, 6)
              IN  IF IsRaise(ses) THEN ses
                  ELSE IF IsRaise(sas) THEN sas
                  ELSE ExtractScan(lines, AfterAreaBlock(i),
                                   AssignArea(area, [kind |-> "area", ses |-> F(ses.value),
                                                     sas |-> F(sas.value)]),
                                   volume)
    ELSE IF StartsWith(Strip(lines[i]), VOLUME_MARKER)
    THEN LET v == FloatAt(Split(lines[i]), 2)
         IN  IF IsRaise(v) THEN v
             ELSE ExtractScan(lines, i + 1, area, AssignVolume(volume, F(v.value)))
    ELSE ExtractScan(lines, i + 1, area, volume)

extract_ses_sas_vol(lines) == ExtractScan(lines, 1, None, None)

-----------------------------------------------------------------------------
(* The logs the queries are run on. *)

LnMarker == AREA_MARKER \o <<"\n">>
LnIndentedMarker == <<" ">> \o AREA_MARKER \o <<"\n">>
LnHeader == <<" ", "Comp.", " ", "probe_radius,", " ", "reent,", " ", "toric,", " ",
              "contact", " ", "SES", " ", "SAS", "\n">>
LnDataA == <<" ", "0", " ", "1.5", " ", "7.5", " ", "7.5", " ", "7.5", " ", "2.0", " ", "3.0", "\n">>
LnDataB == <<" ", "0", " ", "1.5", " ", "7.5", " ", "7.5", " ", "7.5", " ", "4.5", " ", "6.0", "\n">>
LnShort == <<" ", "0", " ", "1.5", "\n">>
LnVolumeA == <<" ", " ", "Total", " ", "ses_volume:", " ", "7.5", "\n">>
LnVolumeB == <<"Total", " ", "ses_volume:", " ", " ", "9.0", "\n">>

\* one line, or one area block as msms prints it
ExtractPieces ==
    { <<LnMarker>>, <<LnIndentedMarker>>, <<LnHeader>>, <<LnDataA>>, <<LnShort>>,
      <<LnVolumeA>>, <<LnVolumeB>>,
      <<LnMarker, LnHeader, LnDataA>>, <<LnMarker, LnHeader, LnDataB>> }

LnParamMsms == <<"PARAM", " ", " ", "Probe_radius", " ", "1.5", " ", "density", " ", "2.0",
                 " ", "hdensity", " ", "3.0", "\n">>
LnParamOther == <<"PARAM", " ", " ", "Probe_radius", " ", "3.0", " ", "density", " ", "4.5",
                  " ", "hdensity", " ", "6.0", "\n">>
LnParamDashes == <<"PARAM", " ", "--", " ", "probe_radius", " ", "1.5", " ", "density", " ",
                   "2.0", " ", "hdensity", " ", "3.0">>
LnParamShort == <<"PARAM", " ", "Probe_radius", " ", "1.5", "\n">>
LnParameters == <<"PARAM", "ETERS", " ", "of", " ", "9.0", " ", "x", " ", "7.5", " ", "x",
                  " ", "6.0", "\n">>
LnIndentedParam == <<" ">> \o LnParamMsms

ParamLines ==
    { LnParamMsms, LnParamOther, LnParamDashes, LnParamShort, LnParameters,
      LnIndentedParam, LnHeader }

-----------------------------------------------------------------------------
(* An MsmsOutput made by its constructor, and calls of its log queries. *)

NoRun ==
    /\ xyz = None /\ radii = None /\ args = <<>> /\ kwargs = <<>>
    /\ compute_area = FALSE /\ temp_dir = None /\ check_small_atoms = FALSE
    /\ pc = "object" /\ passed = None /\ tmp_made = FALSE
    /\ xyzr_file = None /\ call = <<>> /\ frame_compute_area = FALSE
    /\ outcome = NoCall

NotCalled == [method |-> "none", out |-> NoCall]

InitExtract ==
    /\ \E pieces \in SeqsUpTo(ExtractPieces, MaxPieces) : log_lines = Flatten(pieces)
    /\ areas = None
    /\ ret = NotCalled
    /\ NoRun

InitParams ==
    /\ log_lines \in SeqsUpTo(ParamLines, MaxParamLines)
    /\ areas = None
    /\ ret = NotCalled
    /\ NoRun

Call_params ==
    /\ pc = "object"
    /\ ret' = [method |-> "params", out |-> params(log_lines)]
    /\ UNCHANGED <<log_lines, areas>>
    /\ UNCHANGED runVars

Call_extract_ses_sas_vol ==
    /\ pc = "object"
    /\ ret' = [method |-> "extract_ses_sas_vol", out |-> extract_ses_sas_vol(log_lines)]
    /\ UNCHANGED <<log_lines, areas>>
    /\ UNCHANGED runVars

NextExtract == Call_extract_ses_sas_vol
SpecExtract == InitExtract /\ [][NextExtract]_vars

NextParams == Call_params
SpecParams == InitParams /\ [][NextParams]_vars

-----------------------------------------------------------------------------
(* Claims about extract_ses_sas_vol. *)

Extracted == ret.method = "extract_ses_sas_vol"

MarkerLines == {i \in 1..Len(log_lines) : StartsWith(log_lines[i], AREA_MARKER)}

VolumeLines == {i \in 1..Len(log_lines) : StartsWith(Strip(log_lines[i]), VOLUME_MARKER)}

Max(S) == CHOOSE x \in S : \A y \in S : y <= x
Min(S) == CHOOSE x \in S : \A y \in S : x <= y

\* the marker lines that open an area block: those that are not the header or
\* the data line of a block opened one or two lines before
BlockStarts ==
    LET opened[i \in 0..Len(log_lines)] ==
            IF i = 0 THEN {}
            ELSE IF i \in MarkerLines /\ (i - 1) \notin opened[i - 1]
                                      /\ (i - 2) \notin opened[i - 1]
                 THEN opened[i - 1] \cup {i}
                 ELSE opened[i - 1]
    IN  opened[Len(log_lines)]

\* the lines the two next(lines) of a block take
InsideBlock ==
    LET starts == BlockStarts
    IN  {i \in 1..Len(log_lines) : (i - 1) \in starts \/ (i - 2) \in starts}

\* token k (from 0) of line i read as a float is the Python float f
TokenIs(i, k, f) == FloatAt(Split(log_lines[i]), k) = Return(f.tenths)

\* C1 as stated: with more than one marker line, each followed by a header and
\* a data line, the returned ses and sas are tokens 5 and 6 of the data line
\* of the first block.
C1_FirstBlockWins ==
    ( /\ Extracted /\ IsReturn(ret.out)
      /\ Cardinality(MarkerLines) > 1
      /\ \A i \in MarkerLines : i + 2 <= Len(log_lines) )
    => /\ TokenIs(Min(MarkerLines) + 2, 5, ret.out.value.ses)
       /\ TokenIs(Min(MarkerLines) + 2, 6, ret.out.value.sas)

\* C1 amended: whenever extract_ses_sas_vol returns, ses and sas are tokens 5
\* and 6 of the data line of the last area block the scan reads; the blocks
\* before it do not change the result.
C1_LastBlockWins ==
    (Extracted /\ IsReturn(ret.out))
    => /\ BlockStarts # {}
       /\ TokenIs(Max(BlockStarts) + 2, 5, ret.out.value.ses)
       /\ TokenIs(Max(BlockStarts) + 2, 6, ret.out.value.sas)

\* a result returned from a log of two blocks whose data lines differ
C1_Witness ==
    /\ Extracted /\ IsReturn(ret.out)
    /\ Cardinality(BlockStarts) > 1
    /\ ~TokenIs(Min(BlockStarts) + 2, 5, ret.out.value.ses)
    /\ ~TokenIs(Min(BlockStarts) + 2, 6, ret.out.value.sas)

\* C2 as stated: the returned volume is token 2 of the last line whose
\* stripped text begins with "Total ses_volume:", wherever that line stands.
C2_LastVolumeLineAnywhere ==
    (Extracted /\ IsReturn(ret.out))
    => /\ VolumeLines # {}
       /\ TokenIs(Max(VolumeLines), 2, ret.out.value.volume)

\* C2 amended: the returned volume is token 2 of the last "Total ses_volume:"
\* line that is not the header or data line of an area block; a volume line
\* in one of those two places is never read.
C2_LastVolumeLineOutsideBlocks ==
    (Extracted /\ IsReturn(ret.out))
    => /\ VolumeLines \ InsideBlock # {}
       /\ TokenIs(Max(VolumeLines \ InsideBlock), 2, ret.out.value.volume)

\* a result returned although the last volume line of the log, inside a
\* block, says another volume; volume lines stand before and after a marker
C2_Witness ==
    /\ Extracted /\ IsReturn(ret.out)
    /\ Max(VolumeLines) \in InsideBlock
    /\ ~TokenIs(Max(VolumeLines), 2, ret.out.value.volume)

MissingArea == Raise("ValueError", "Could not find analytical surface area in the msms output.")
MissingVolume == Raise("ValueError", "Could not find numerical SES volume in the msms output.")

\* a marker line with the two lines of its block after it
UsableBlocks == {i \in MarkerLines : i + 2 <= Len(log_lines)}

\* C3 as stated: extract_ses_sas_vol fails only with one of the two
\* missing-data errors; with no usable area block it fails with the
\* missing-area error, with a block and no volume line with the
\* missing-volume error.
C3_OnlyMissingDataErrors ==
    Extracted
    => /\ IsRaise(ret.out) => ret.out \in {MissingArea, MissingVolume}
       /\ UsableBlocks = {} => ret.out = MissingArea
       /\ (UsableBlocks # {} /\ VolumeLines = {}) => ret.out = MissingVolume

-----------------------------------------------------------------------------
(* Claims about params. *)

ParamsCalled == ret.method = "params"

ParamLinesOfLog == {i \in 1..Len(log_lines) : StartsWith(log_lines[i], PARAM)}

\* the tokens at 2, 4 and 6 of line i are all there and all numbers
NumbersAt246(i) ==
    LET elems == Split(log_lines[i])
    IN  /\ Len(elems) >= 7
        /\ IsFloat(elems[3]) /\ IsFloat(elems[5]) /\ IsFloat(elems[7])

\* SurfaceParams from the tokens at 2, 4 and 6 of line i
ParamsOfLine(i) ==
    LET elems == Split(log_lines[i])
    IN  SurfaceParams(F(FloatText[elems[3][1]]), F(FloatText[elems[5][1]]),
                      F(FloatText[elems[7][1]]))

FirstParamLineDecides ==
    /\ ParamLinesOfLog = {} => ret.out = Return(None)
    /\ ParamLinesOfLog # {} =>
         IF NumbersAt246(Min(ParamLinesOfLog))
         THEN ret.out = Return(ParamsOfLine(Min(ParamLinesOfLog)))
         ELSE IsRaise(ret.out)

\* C4 as stated: params() returns SurfaceParams from tokens 2, 4, 6 of the
\* first line that starts with "PARAM", and the line
\* "PARAM -- probe_radius 1.5 density 2.0 hdensity 3.0" yields
\* SurfaceParams(1.5, 2.0, 3.0).
C4_DashesLineYieldsParams ==
    ParamsCalled
    => /\ FirstParamLineDecides
       /\ log_lines = <<LnParamDashes>>
            => ret.out = Return(SurfaceParams(F(15), F(20), F(30)))

\* C4 amended: params() returns SurfaceParams from tokens 2, 4, 6 of the
\* first line that starts with "PARAM" when these are numbers (later PARAM
\* lines are ignored, also when the first one cannot be read); on the line
\* "PARAM -- probe_radius 1.5 density 2.0 hdensity 3.0" token 2 is the word
\* probe_radius and params() raises ValueError; the line
\* "PARAM  Probe_radius 1.5 density 2.0 hdensity 3.0" yields
\* SurfaceParams(1.5, 2.0, 3.0).
C4_FirstParamLineTokens246 ==
    ParamsCalled
    => /\ FirstParamLineDecides
       /\ log_lines = <<LnParamDashes>>
            => (IsRaise(ret.out) /\ ret.out.exc = "ValueError")
       /\ log_lines = <<LnParamMsms>>
            => ret.out = Return(SurfaceParams(F(15), F(20), F(30)))

\* params() returned the values of the first of two differing PARAM lines
C4_Witness ==
    /\ ParamsCalled /\ IsReturn(ret.out)
    /\ Cardinality(ParamLinesOfLog) > 1
    /\ NumbersAt246(Max(ParamLinesOfLog))
    /\ ret.out.value = ParamsOfLine(Min(ParamLinesOfLog))
    /\ ret.out.value # ParamsOfLine(Max(ParamLinesOfLog))

-----------------------------------------------------------------------------
(* numpy arrays: a shape and the elements in row-major order. *)

Array(shape, data) == [shape |-> shape, data |-> data]

\* np.asarray of a list of N points of D coordinates each
Array2D(rows, d) == Array(<<Len(rows), d>>, Flatten(rows))

\* np.asarray of a list of numbers
Array1D(elems) == Array(<<Len(elems)>>, elems)

\* np.asarray of one number
Array0D(v) == Array(<<>>, <<v>>)

\* row i (from 1) of a two-dimensional array
Row(x, i) == SubSeq(x.data, (i - 1) * x.shape[2] + 1, i * x.shape[2])

RECURSIVE SumSq(_, _)
SumSq(u, v) ==
    IF u = <<>> THEN 0
    ELSE (Head(u) - Head(v)) * (Head(u) - Head(v)) + SumSq(Tail(u), Tail(v))

\* the square of the Euclidean distance of rows a and b
Dist2(x, a, b) == SumSq(Row(x, a), Row(x, b))

\* A real number known by its floor and by whether it is that integer; the
\* distances are square roots of integers, so every number the filter
\* compares is one of these, or minus infinity.
Real(floor, exact) == [floor |-> floor, exact |-> exact, neginf |-> FALSE]
MinusInf == [floor |-> 0, exact |-> TRUE, neginf |-> TRUE]
Inf == [floor |-> 0, exact |-> TRUE, inf |-> TRUE]

ISqrt(n) == CHOOSE s \in 0..n : s * s <= n /\ n < (s + 1) * (s + 1)

\* the distance whose square is d2
Sqrt(d2) == [floor |-> ISqrt(d2), exact |-> ISqrt(d2) * ISqrt(d2) = d2, inf |-> FALSE]

\* nbr_radii - nbr_dist, for an integer radius
Minus(rn, dist) ==
    IF dist.inf THEN MinusInf
    ELSE IF dist.exact THEN Real(rn - dist.floor, TRUE)
    ELSE Real(rn - dist.floor - 1, FALSE)

\* the comparison with >= in place of >
GreaterOrEqual(r, v) ==
    IF v.neginf THEN TRUE
    ELSE IF v.exact THEN r >= v.floor
    ELSE r > v.floor

\* radii > (...), for an integer radius
Greater(r, v) ==
    IF v.neginf THEN TRUE
    ELSE r > v.floor

-----------------------------------------------------------------------------
(* scipy.spatial.KDTree: tree.query(xyz, k=2), its second column. *)

\* The answers query may give for point a (from 1) of n points: the index
\* (from 0, as scipy counts) and the distance of a second nearest point of
\* the tree.  Point a itself is in the tree at distance 0.  Among points at
\* the same distance scipy fixes no order, so with a point at the place of a
\* the answer may be a itself.  With one point in the tree there is no
\* second one: scipy answers index n and distance inf.
SecondNearest(x, a) ==
    LET n == x.shape[1]
        d2 == [j \in 1..n |-> Dist2(x, a, j)]
    IN  IF n < 2 THEN {[ind |-> n, dist |-> Inf]}
        ELSE {[ind |-> j - 1, dist |-> Sqrt(d2[j])] :
                j \in {j \in 1..n :
                        \E i \in (1..n) \ {j} :
                            /\ d2[i] <= d2[j]
                            /\ \A k \in (1..n) \ {i, j} : d2[k] >= d2[j]}}

\* the answers for the points a to n, one after the other
RECURSIVE QueryFrom(_, _)
QueryFrom(x, a) ==
    IF a > x.shape[1] THEN {<<>>}
    ELSE {<<s>> \o rest : s \in SecondNearest(x, a), rest \in QueryFrom(x, a + 1)}

\* every (dist[:, 1], ind[:, 1]) that tree.query(xyz, k=2) may return
KDTree_query(x) == QueryFrom(x, 1)

-----------------------------------------------------------------------------
(* Python values given as extra arguments, and str(). *)

PyStr(chunks) == [type |-> "str", n |-> 0, s |-> chunks]
PyFloat(tenths) == [type |-> "float", n |-> tenths, s |-> <<>>]
PyInt(v) == [type |-> "int", n |-> v, s |-> <<>>]

\* str() of the integers 0 to 3
IntText == <<"1", "2", "3">>

\* str(v)
Str(v) ==
    CASE v.type = "str" -> v.s
      [] v.type = "float" -> <<CHOOSE c \in DOMAIN FloatText : c # "0" /\ FloatText[c] = v.n>>
      [] v.type = "int" -> <<IF v.n = 0 THEN "0" ELSE IntText[v.n]>>

\* the value bound to keyword name in the keyword arguments kw, or its default
KwGet(kw, name, default) ==
    IF \E i \in DOMAIN kw : kw[i][1] = name
    THEN kw[CHOOSE i \in DOMAIN kw : kw[i][1] = name][2]
    ELSE default

\* the keyword-only parameters of run_msms (line 131)
RunMsmsKeywords == {"compute_area", "temp_dir", "check_small_atoms"}

\* **kwargs of run_msms: the keyword arguments that bind no parameter
KwRest(kw) == SelectSeq(kw, LAMBDA p : p[1] \notin RunMsmsKeywords)

-----------------------------------------------------------------------------
(* run_msms and _run_msms_check_small_atoms. *)

\* What a call did: the exception it raised (None: it is at subprocess.run),
\* the arrays the filter passed on, whether the temporary directory was
\* made, the array saved to input.xyzr, the command, and compute_area as the
\* frame that runs msms has it.
NoEffects ==
    [exc |-> None, passed |-> None, tmp_made |-> FALSE, xyzr |-> None,
     call |-> <<>>, compute_area |-> FALSE]

\* os.path.join(dir, name)
PathJoin(dir, name) == dir \o <<"/", name>>

\* the directory TemporaryDirectory(dir=temp_dir) makes
TemporaryDirectory(tdir) ==
    PathJoin(IF tdir = None THEN <<"/tmp">> ELSE tdir.s, "tmpdir")

\* [str(arg) for arg in args]
RECURSIVE StrEach(_)
StrEach(a) == IF a = <<>> THEN <<>> ELSE <<Str(Head(a))>> \o StrEach(Tail(a))

\* extra_args.extend(["-"+str(k), str(v)]) for each keyword argument
RECURSIVE KwFlags(_)
KwFlags(kw) ==
    IF kw = <<>> THEN <<>>
    ELSE <<<<"-">> \o <<Head(kw)[1]>>, Str(Head(kw)[2])>> \o KwFlags(Tail(kw))

\* np.hstack([xyz, radii[:, np.newaxis]]): the rows x y z r
Hstack(x, r) == [i \in 1..x.shape[1] |-> Append(Row(x, i), r.data[i])]

\* run_msms without check_small_atoms: lines 146-161, up to subprocess.run
RunDirect(x, r, a, compute, tdir, kw, e) ==
    IF Len(x.shape) # 2 \/ x.shape[2] # 3
    THEN [e EXCEPT !.exc = Raise("ValueError", "xyz must have shape (N, 3)")]
    ELSE IF r.shape # <<x.shape[1]>>
    THEN [e EXCEPT !.exc = Raise("ValueError", "radii must have shape (N,)")]
    ELSE LET tmp == TemporaryDirectory(tdir)
             xyzr_fname == PathJoin(tmp, "input.xyzr")
             out_basename == PathJoin(tmp, "out")
             extra_args == StrEach(a) \o KwFlags(kw)
                           \o (IF compute THEN <<<<"-af">>, out_basename>> ELSE <<>>)
         IN  [e EXCEPT !.tmp_made = TRUE,
                       !.xyzr = [kind |-> "file", rows |-> Hstack(x, r)],
                       !.call = <<<<"msms">>, <<"-if">>, xyzr_fname, <<"-of">>, out_basename>>
                                \o extra_args,
                       !.compute_area = compute]

\* radii[ind[:, 1]]
NbrRadii(r, q) ==
    IF Len(r.shape) = 0 THEN Raise("IndexError", "too many indices for array")
    ELSE IF \E a \in DOMAIN q : q[a].ind >= r.shape[1]
    THEN Raise("IndexError", "index is out of bounds")
    ELSE Return([a \in DOMAIN q |-> r.data[q[a].ind + 1]])

\* radii > (nbr_radii - nbr_dist), with numpy's broadcasting of a length 1
GoodAtoms(r, nbr_radii, q) ==
    LET m == r.shape[1]
        n == Len(nbr_radii)
        len == IF m >= n THEN m ELSE n
    IN  IF m # n /\ m # 1 /\ n # 1
        THEN Raise("ValueError", "operands could not be broadcast together")
        ELSE Return([i \in 1..len |->
                 Greater(r.data[IF m = 1 THEN 1 ELSE i],
                         Minus(nbr_radii[IF n = 1 THEN 1 ELSE i],
                               q[IF n = 1 THEN 1 ELSE i].dist))])

\* the places of the True entries of a boolean mask, in order
RECURSIVE TrueAt(_, _)
TrueAt(mask, i) ==
    IF i > Len(mask) THEN <<>>
    ELSE (IF mask[i] THEN <<i>> ELSE <<>>) \o TrueAt(mask, i + 1)

\* xyz[good_atoms], a two-dimensional array indexed by a boolean mask
MaskRows(x, mask) ==
    LET at == TrueAt(mask, 1)
    IN  Array(<<Len(at), x.shape[2]>>, Flatten([k \in 1..Len(at) |-> Row(x, at[k])]))

\* radii[good_atoms]
MaskElems(r, mask) ==
    LET at == TrueAt(mask, 1)
    IN  Array(<<Len(at)>>, [k \in 1..Len(at) |-> r.data[at[k]]])

\* a filter call that leaves compute_area behind
FilterKeywordsNoArea(compute, tdir, kw) == <<<<"temp_dir", tdir>>>> \o kw

\* the keyword arguments run_msms gives the filter (line 145)
FilterKeywords(compute, tdir, kw) ==
    <<<<"compute_area", compute>>, <<"temp_dir", tdir>>>> \o kw

RECURSIVE run_msms(_, _, _, _, _, _)

\* _run_msms_check_small_atoms (lines 175-186); q is what tree.query returned
run_msms_check_small_atoms(x, r, a, kw, q, e) ==
    IF Len(x.shape) # 2
    THEN [e EXCEPT !.exc = Raise("ValueError", "data must be of shape (n, m)")]
    ELSE LET nbr_radii == NbrRadii(r, q)
             good_atoms == GoodAtoms(r, nbr_radii.value, q)
         IN  IF IsRaise(nbr_radii) THEN [e EXCEPT !.exc = nbr_radii]
             ELSE IF IsRaise(good_atoms) THEN [e EXCEPT !.exc = good_atoms]
             ELSE IF Len(good_atoms.value) # x.shape[1] \/ Len(good_atoms.value) # r.shape[1]
             THEN [e EXCEPT !.exc = Raise("IndexError", "boolean index did not match indexed array")]
             ELSE LET x2 == MaskRows(x, good_atoms.value)
                      r2 == MaskElems(r, good_atoms.value)
                  IN  run_msms(x2, r2, a, kw, q,
                               [e EXCEPT !.passed = [xyz |-> x2, radii |-> r2,
                                                     good_atoms |-> good_atoms.value]])

\* run_msms (lines 131-161): x, r the arrays, a the positional arguments after
\* them, kw the keyword arguments of the call
run_msms(x, r, a, kw, q, e) ==
    IF KwGet(kw, "check_small_atoms", FALSE)
    THEN run_msms_check_small_atoms(x, r, a,
             FilterKeywords(KwGet(kw, "compute_area", FALSE), KwGet(kw, "temp_dir", None),
                            KwRest(kw)),
             q, e)
    ELSE RunDirect(x, r, a, KwGet(kw, "compute_area", FALSE), KwGet(kw, "temp_dir", None),
                   KwRest(kw), e)

-----------------------------------------------------------------------------
(* What msms leaves behind, and MsmsOutput.from_files. *)

\* file.readlines(): the text cut after each "\n"
RECURSIVE ReadLinesFrom(_, _, _)
ReadLinesFrom(text, lines, cur) ==
    IF text = <<>> THEN (IF cur = <<>> THEN lines ELSE Append(lines, cur))
    ELSE IF Head(text) = "\n"
         THEN ReadLinesFrom(Tail(text), Append(lines, Append(cur, "\n")), <<>>)
         ELSE ReadLinesFrom(Tail(text), lines, Append(cur, Head(text)))

ReadLines(text) == ReadLinesFrom(text, <<>>, <<>>)

\* int(tok) for the sphere column
IntAt(elems, k) ==
    IF elems[k + 1] = <<"0">> THEN 0
    ELSE CHOOSE n \in DOMAIN IntText : <<IntText[n]>> = elems[k + 1]

\* np.loadtxt(area_file, skiprows=1, dtype=AREA_DTYPES) of a well-formed file
\* (the 0-d array numpy makes of a single data line is kept as one row)
LoadAreas(text) ==
    LET lines == Tail(ReadLines(text))
    IN  [kind |-> "ndarray",
         rows |-> [i \in 1..Len(lines) |->
                     LET elems == Split(lines[i])
                     IN  [sphere |-> IntAt(elems, 0),
                          ses_0 |-> F(FloatAt(elems, 1).value),
                          sas_0 |-> F(FloatAt(elems, 2).value)]]]

\* MsmsOutput.from_files: the log lines and the areas (lines 66-70)
from_files(log_file, area_file) ==
    [log_lines |-> ReadLines(log_file),
     areas |-> IF area_file # None THEN LoadAreas(area_file.text) ELSE None]

\* get_ses_per_sphere: self.areas["ses_0"]
get_ses_per_sphere(a) ==
    IF a = None THEN Raise("TypeError", "'NoneType' object is not subscriptable")
    ELSE Return([i \in DOMAIN a.rows |-> a.rows[i].ses_0])

\* get_sas_per_sphere: self.areas["sas_0"]
get_sas_per_sphere(a) ==
    IF a = None THEN Raise("TypeError", "'NoneType' object is not subscriptable")
    ELSE Return([i \in DOMAIN a.rows |-> a.rows[i].sas_0])

\* the standard output of msms: nothing, or two lines
Stdouts == {<<>>, LnParamMsms \o LnVolumeA}

\* the two values msms may print for a sphere's ses_0 and sas_0
AreaValues == {<<"1.5", "3.0">>, <<"4.5", "6.0">>}

AreaHeader == <<"sphere", " ", "ses_0", " ", "sas_0", "\n">>

\* the .area files msms may write for k spheres: a header and a line each
AreaFiles(k) ==
    {[kind |-> "file",
      text |-> AreaHeader \o
               Flatten([i \in 1..k |-> <<" ", Str(PyInt(i - 1))[1], " ", v[i][1], " ", v[i][2], "\n">>])] :
        v \in [1..k -> AreaValues]}

-----------------------------------------------------------------------------
(* The calls of run_msms. *)

P0 == <<0, 0, 0>>
P1 == <<1, 0, 0>>
P2 == <<0, 1, 0>>

\* atom positions, in units of 0.5: P1 and P2 are equally far from P0
Points == {P0, P1, P2}

\* atom radii, in units of 0.5
Radii == {2, 3, 4}

\* xyz as given to run_msms: of shape (1, 3), (2, 3), (2, 2) and (3,)
XyzInputs ==
    { Array2D(<<P0>>, 3), Array2D(<<P0, P1>>, 3), Array2D(<<<<0, 0>>, <<1, 0>>>>, 2),
      Array1D(P0) }

\* radii as given to run_msms: of shape (1,), (2,), (3,) and ()
RadiiInputs ==
    { Array1D(<<2>>), Array1D(<<2, 4>>), Array1D(<<2, 2>>), Array1D(<<2, 4, 4>>),
      Array0D(2) }

ArgValues == {PyStr(<<"-density">>), PyFloat(20)}

KwargInputs ==
    { <<>>,
      <<<<"density", PyFloat(20)>>>>,
      <<<<"probe_radius", PyStr(<<"1.5">>)>>>>,
      <<<<"density", PyFloat(20)>>, <<"hdensity", PyInt(3)>>>>,
      <<<<"hdensity", PyInt(3)>>, <<"density", PyFloat(20)>>>> }

NoObject ==
    /\ log_lines = <<>> /\ areas = None /\ ret = NotCalled

NotRun ==
    /\ pc = "start" /\ passed = None /\ tmp_made = FALSE /\ xyzr_file = None
    /\ call = <<>> /\ frame_compute_area = FALSE /\ outcome = NoCall

InitRun ==
    /\ xyz \in XyzInputs
    /\ radii \in RadiiInputs
    /\ args \in SeqsUpTo(ArgValues, MaxArgs)
    /\ kwargs \in KwargInputs
    /\ compute_area \in BOOLEAN
    /\ temp_dir \in {None, PyStr(<<"/scratch">>)}
    /\ check_small_atoms \in BOOLEAN
    /\ NotRun
    /\ NoObject

\* one to MaxAtoms atoms, at any of the points (also at the same one), given
\* to run_msms with check_small_atoms=True
InitFilter ==
    /\ \E n \in 1..MaxAtoms :
         /\ \E ps \in [1..n -> Points] : xyz = Array2D(ps, 3)
         /\ \E rs \in [1..n -> Radii] : radii = Array1D(rs)
    /\ args = <<>>
    /\ kwargs = <<>>
    /\ compute_area = FALSE
    /\ temp_dir = None
    /\ check_small_atoms = TRUE
    /\ NotRun
    /\ NoObject

\* run_msms(xyz, radii, *args, compute_area=.., temp_dir=.., check_small_atoms=..,
\* **kwargs), up to the exception it raises or to subprocess.run
Call_run_msms ==
    /\ pc = "start"
    /\ \E q \in (IF check_small_atoms /\ Len(xyz.shape) = 2 THEN KDTree_query(xyz) ELSE {<<>>}) :
         \E e \in {run_msms(xyz, radii, args,
                             <<<<"compute_area", compute_area>>, <<"temp_dir", temp_dir>>,
                               <<"check_small_atoms", check_small_atoms>>>> \o kwargs,
                             q, NoEffects)} :
             /\ passed' = e.passed
             /\ tmp_made' = e.tmp_made
             /\ xyzr_file' = e.xyzr
             /\ call' = e.call
             /\ frame_compute_area' = e.compute_area
             /\ outcome' = e.exc
             /\ pc' = IF e.exc = None THEN "running" ELSE "raised"
    /\ UNCHANGED <<xyz, radii, args, kwargs, compute_area, temp_dir, check_small_atoms>>
    /\ UNCHANGED <<log_lines, areas, ret>>

\* msms ends: lines 162-173.  It wrote out.vert and out.face, and out.area
\* when -af was in its command.
Exit_msms ==
    /\ pc = "running"
    /\ \E returncode \in {0, 1}, stdout \in Stdouts, area_file \in AreaFiles(Len(xyzr_file.rows)) :
         IF returncode # 0
         THEN /\ outcome' = Raise("RuntimeError", "msms returned nonzero return.")
              /\ pc' = "raised"
              /\ UNCHANGED <<log_lines, areas>>
         ELSE IF frame_compute_area /\ \A i \in DOMAIN call : call[i] # <<"-af">>
         THEN /\ outcome' = Raise("FileNotFoundError", "out.area")
              /\ pc' = "raised"
              /\ UNCHANGED <<log_lines, areas>>
         ELSE LET out == from_files(stdout, IF frame_compute_area THEN area_file ELSE None)
              IN  /\ log_lines' = out.log_lines
                  /\ areas' = out.areas
                  /\ outcome' = Return(None)
                  /\ pc' = "object"
    /\ UNCHANGED <<xyz, radii, args, kwargs, compute_area, temp_dir, check_small_atoms>>
    /\ UNCHANGED <<passed, tmp_made, xyzr_file, call, frame_compute_area, ret>>

Call_get_ses_per_sphere ==
    /\ pc = "object"
    /\ ret' = [method |-> "get_ses_per_sphere", out |-> get_ses_per_sphere(areas)]
    /\ UNCHANGED <<log_lines, areas>>
    /\ UNCHANGED runVars

Call_get_sas_per_sphere ==
    /\ pc = "object"
    /\ ret' = [method |-> "get_sas_per_sphere", out |-> get_sas_per_sphere(areas)]
    /\ UNCHANGED <<log_lines, areas>>
    /\ UNCHANGED runVars

NextRun ==
    \/ Call_run_msms
    \/ Exit_msms
    \/ Call_get_ses_per_sphere
    \/ Call_get_sas_per_sphere

SpecRun == InitRun /\ [][NextRun]_vars

NextFilter == Call_run_msms
SpecFilter == InitFilter /\ [][NextFilter]_vars

-----------------------------------------------------------------------------
(* Claims about the per-atom areas. *)

AreasAsked == ret.method \in {"get_ses_per_sphere", "get_sas_per_sphere"}

\* C5 as stated: on an MsmsOutput without areas get_ses_per_sphere and
\* get_sas_per_sphere fail with the "areas not computed" MissingAreasError,
\* not with a generic type error; with areas they return the ses_0 / sas_0
\* column.
C5_MissingAreasError ==
    AreasAsked
    => IF areas = None
       THEN IsRaise(ret.out) /\ ret.out.exc = "MissingAreasError"
       ELSE /\ IsReturn(ret.out)
            /\ Len(ret.out.value) = Len(areas.rows)
            /\ \A i \in DOMAIN areas.rows :
                 ret.out.value[i] = IF ret.method = "get_ses_per_sphere"
                                    THEN areas.rows[i].ses_0 ELSE areas.rows[i].sas_0

-----------------------------------------------------------------------------
(* Claims about the small-atom filter. *)

Called == pc # "start"

NAtoms == xyz.shape[1]

Atoms == 1..NAtoms

DistinctPositions == \A a, b \in Atoms : a # b => Row(xyz, a) # Row(xyz, b)

\* the other atoms nearest to atom a
NearestOthers(a) ==
    {b \in Atoms \ {a} : \A c \in Atoms \ {a} : Dist2(xyz, a, b) <= Dist2(xyz, a, c)}

\* the sphere of atom b holds all of atom a: radius[a] <= radius[b] - dist(a, b)
Engulfs(b, a) ==
    /\ radii.data[b] >= radii.data[a]
    /\ (radii.data[b] - radii.data[a]) * (radii.data[b] - radii.data[a]) >= Dist2(xyz, a, b)

RECURSIVE Ascending(_)
Ascending(S) == IF S = {} THEN <<>> ELSE <<Min(S)>> \o Ascending(S \ {Min(S)})

\* the atoms of the set kept, in the order of the input, as the filter
\* hands them on
HandedOn(kept) ==
    LET at == Ascending(kept)
    IN  /\ passed.xyz.shape = <<Len(at), 3>>
        /\ passed.xyz.data = Flatten([k \in 1..Len(at) |-> Row(xyz, at[k])])
        /\ passed.radii.shape = <<Len(at)>>
        /\ \A k \in 1..Len(at) : passed.radii.data[k] = radii.data[at[k]]

\* C6: for two or more atoms at distinct positions, atom a is kept if and
\* only if radius[a] > radius[n(a)] - dist(a, n(a)) for n(a) a nearest other
\* atom of a; the kept atoms and their radii are handed on in the order of
\* the input, no more than N of them.  Two atoms 0.5 apart with radii
\* [1.0, 2.0] keep only the second, with radii [1.0, 1.0] both.
C6_KeptIffNotEngulfedByNearest ==
    (Called /\ check_small_atoms /\ NAtoms >= 2 /\ DistinctPositions)
    => /\ passed # None
       /\ \E n \in [Atoms -> Atoms] :
            /\ \A a \in Atoms : n[a] \in NearestOthers(a)
            /\ \A a \in Atoms : passed.good_atoms[a] <=> ~Engulfs(n[a], a)
       /\ HandedOn({a \in Atoms : passed.good_atoms[a]})
       /\ passed.radii.shape[1] <= NAtoms
       /\ (xyz.data = P0 \o P1 /\ radii.data = <<2, 4>>)
            => (passed.xyz.data = P1 /\ passed.radii.data = <<4>>)
       /\ (xyz.data = P0 \o P1 /\ radii.data = <<2, 2>>)
            => (passed.xyz.data = P0 \o P1 /\ passed.radii.data = <<2, 2>>)

\* three atoms at distinct places, the middle one removed: its radius is
\* its neighbour's radius less their distance
C6_Witness ==
    /\ Called /\ check_small_atoms /\ NAtoms = 3 /\ DistinctPositions
    /\ passed # None
    /\ passed.good_atoms = <<TRUE, FALSE, TRUE>>
    /\ \E b \in NearestOthers(2) :
         radii.data[2] = radii.data[b] - 1 /\ Dist2(xyz, 2, b) = 1

\* C7 as stated: with a single atom the filter does not fail with an index
\* error on the neighbour's radius.
C7_SingleAtomNoIndexError ==
    (Called /\ check_small_atoms /\ xyz.shape = <<1, 3>> /\ radii.shape = <<1>>)
    => ~(IsRaise(outcome) /\ outcome.exc = "IndexError")

\* C10 as stated: with two or more atoms, every atom the filter removes lies
\* inside the sphere of an atom it keeps, and the atoms handed on are never
\* none.
C10_RemovedInsideKept ==
    (Called /\ check_small_atoms /\ NAtoms >= 2 /\ passed # None)
    => /\ passed.radii.shape[1] > 0
       /\ \A a \in Atoms :
            ~passed.good_atoms[a]
            => \E b \in Atoms \ {a} : passed.good_atoms[b] /\ Engulfs(b, a)

-----------------------------------------------------------------------------
(* Claims about run_msms. *)

ShapeIsN3 == Len(xyz.shape) = 2 /\ xyz.shape[2] = 3

ShapesFit == ShapeIsN3 /\ radii.shape = <<xyz.shape[1]>>

ShapeErrors ==
    { Raise("ValueError", "xyz must have shape (N, 3)"),
      Raise("ValueError", "radii must have shape (N,)") }

\* C8 as stated: with xyz not of shape (N, 3) or radii not of shape (N,),
\* check_small_atoms False or True, run_msms fails with the error that
\* names the shape, before the temporary directory is made, the input file
\* written and msms run.
C8_ShapeErrorFirst ==
    (Called /\ ~ShapesFit)
    => /\ pc = "raised"
       /\ outcome \in ShapeErrors
       /\ ~tmp_made
       /\ xyzr_file = None
       /\ call = <<>>

\* the directory of the run, as the call's temp_dir gives it
TmpOfCall == TemporaryDirectory(temp_dir)

\* C9: the command is msms -if input -of out, then str(arg) of each
\* positional argument in order, then -key str(value) of each keyword
\* argument in order, then -af out iff compute_area; compute_area, temp_dir
\* and check_small_atoms are no flags of it; check_small_atoms=True builds
\* the same command.
C9_CommandCarriesAllArguments ==
    call # <<>>
    => /\ Len(call) = 5 + Len(args) + 2 * Len(kwargs) + (IF compute_area THEN 2 ELSE 0)
       /\ SubSeq(call, 1, 5) = <<<<"msms">>, <<"-if">>, TmpOfCall \o <<"/", "input.xyzr">>,
                                 <<"-of">>, TmpOfCall \o <<"/", "out">>>>
       /\ \A i \in DOMAIN args : call[5 + i] = Str(args[i])
       /\ \A i \in DOMAIN kwargs :
            /\ call[5 + Len(args) + 2 * i - 1] = <<"-", kwargs[i][1]>>
            /\ call[5 + Len(args) + 2 * i] = Str(kwargs[i][2])
       /\ compute_area
            => /\ call[Len(call) - 1] = <<"-af">>
               /\ call[Len(call)] = TmpOfCall \o <<"/", "out">>
       /\ \A i \in DOMAIN call : \A k \in RunMsmsKeywords : call[i] # <<"-", k>>

\* a command built after the filter, with positional and keyword arguments
\* and the area flag
C9_Witness ==
    /\ call # <<>>
    /\ check_small_atoms /\ passed # None
    /\ compute_area
    /\ Len(args) = 2 /\ Len(kwargs) = 2
    /\ temp_dir # None

=============================================================================
